---- MODULE Spec2Model ----
(***************************************************************************)
(* A model of the SSBC emulator of src/main.rs: the machine core (Ssbc:    *)
(* memory, pc, sp, fault, halt; reset, step, run) driven by the operator   *)
(* console (SsbcCli: the R, b, r, B and D commands).                       *)
(***************************************************************************)
EXTENDS Integers, Sequences, FiniteSets, TLC

(* ------------------------------ bounds -------------------------------- *)
\* instructions executed after one reset
MaxSteps == 7
\* R commands in one console session
MaxLoads == 2
\* B / D commands in one console session
MaxWrites == 1

(* ----------------------------- addresses ------------------------------ *)
MEMORY_LENGTH == 65536
Addr == 0 .. (MEMORY_LENGTH - 1)

\* Wrapping<u16> addition and subtraction (derive_more Add/Sub on Addr)
\* mutant: the sum is not reduced modulo 65536
AddrAdd_no_wrap(a, n) == a + n

AddrAdd(a, n) == (a + n) % MEMORY_LENGTH
AddrSub(a, n) == (a - n) % MEMORY_LENGTH

PSW == 65531

Port == {"A", "B", "C", "D"}
to_addr(port) ==
    CASE port = "A" -> 65532
      [] port = "B" -> 65533
      [] port = "C" -> 65534
      [] port = "D" -> 65535

(* ------------------------------ memory -------------------------------- *)
\* The 65536-byte array is kept as the function of its non-zero cells:
\* a cell outside the domain holds 0.
Memory_new == << >>

get(mem, address) == IF address \in DOMAIN mem THEN mem[address] ELSE 0

set(mem, address, value) ==
    IF value = 0
    THEN [a \in (DOMAIN mem) \ {address} |-> mem[a]]
    ELSE [a \in (DOMAIN mem) \cup {address} |->
              IF a = address THEN value ELSE mem[a]]

(* --------------------------- byte arithmetic -------------------------- *)
wrapping_add(a, b) == (a + b) % 256
wrapping_sub(a, b) == (a - b) % 256

RECURSIVE BitOr(_, _)
BitOr(a, b) ==
    IF a = 0 THEN b
    ELSE IF b = 0 THEN a
    ELSE (IF a % 2 = 1 \/ b % 2 = 1 THEN 1 ELSE 0)
         + 2 * BitOr(a \div 2, b \div 2)

BitNot(a) == 255 - a

(* ---------------------------- machine core ---------------------------- *)
\* #[derive(Default)]: zeroed memory, pc = sp = 0, both flags false
Ssbc_default ==
    [memory |-> Memory_new, pc |-> 0, sp |-> 0, fault |-> FALSE, halt |-> FALSE]

get_psw(s) == get(s.memory, PSW)

\* mutant: reset forgets the halt flag
reset_keeps_halt(s) == [s EXCEPT !.pc = 0, !.sp = 65530, !.fault = FALSE]

\* mutant: reset forgets the fault flag
reset_keeps_fault(s) == [s EXCEPT !.pc = 0, !.sp = 65530, !.halt = FALSE]

reset(s) == [s EXCEPT !.pc = 0, !.sp = 65530, !.fault = FALSE, !.halt = FALSE]

read_ir(s) ==
    [ir |-> get(s.memory, s.pc), s |-> [s EXCEPT !.pc = AddrAdd(s.pc, 1)]]

\* mutant: the address of the low byte does not wrap
read_ext_no_wrap(s) ==
    LET hi == get(s.memory, s.pc)
        lo == get(s.memory, s.pc + 1)
    IN  [ext |-> hi * 256 + lo, s |-> [s EXCEPT !.pc = AddrAdd(s.pc, 2)]]

read_ext(s) ==
    LET hi == get(s.memory, s.pc)
        lo == get(s.memory, AddrAdd(s.pc, 1))
    IN  [ext |-> hi * 256 + lo, s |-> [s EXCEPT !.pc = AddrAdd(s.pc, 2)]]

\* mutant: the conventional sign test, val >= 128
update_psw_sign_bit(s, val) ==
    [s EXCEPT !.memory =
        set(s.memory, PSW, IF val >= 128 THEN 64 ELSE IF val = 0 THEN 128 ELSE 0)]

update_psw(s, val) ==
    [s EXCEPT !.memory =
        set(s.memory, PSW, IF val > 128 THEN 64 ELSE IF val = 0 THEN 128 ELSE 0)]

\* mutant: a push also updates the flags
exec_pushimm_flags(s) ==
    LET f == read_ir(s)
        s1 == [f.s EXCEPT !.memory = set(f.s.memory, f.s.sp, f.ir),
                          !.sp = AddrSub(f.s.sp, 1)]
    IN  update_psw(s1, f.ir)

\* mutant: the stack pointer is decremented before the write
exec_pushimm_predecrement(s) ==
    LET f == read_ir(s)
    IN  [f.s EXCEPT !.memory = set(f.s.memory, AddrSub(f.s.sp, 1), f.ir),
                    !.sp = AddrSub(f.s.sp, 1)]

exec_pushimm(s) ==
    LET f == read_ir(s)
    IN  [f.s EXCEPT !.memory = set(f.s.memory, f.s.sp, f.ir),
                    !.sp = AddrSub(f.s.sp, 1)]

exec_pushext(s) ==
    LET f == read_ext(s)
    IN  [f.s EXCEPT !.memory = set(f.s.memory, f.s.sp, get(f.s.memory, f.ext)),
                    !.sp = AddrSub(f.s.sp, 1)]

\* mutant: the popped cell is cleared
exec_popinh_clears(s) ==
    [s EXCEPT !.memory = set(s.memory, AddrAdd(s.sp, 1), 0),
              !.sp = AddrAdd(s.sp, 1)]

exec_popinh(s) == [s EXCEPT !.sp = AddrAdd(s.sp, 1)]

\* mutant: the PSW and port cells are protected from popext
exec_popext_guarded(s) ==
    LET f == read_ext(s)
        pop == get(f.s.memory, AddrAdd(f.s.sp, 1))
    IN  [f.s EXCEPT !.memory = IF f.ext >= PSW THEN f.s.memory
                                 ELSE set(f.s.memory, f.ext, pop),
                    !.sp = AddrAdd(f.s.sp, 1)]

exec_popext(s) ==
    LET f == read_ext(s)
        pop == get(f.s.memory, AddrAdd(f.s.sp, 1))
    IN  [f.s EXCEPT !.memory = set(f.s.memory, f.ext, pop),
                    !.sp = AddrAdd(f.s.sp, 1)]

\* mutant: jumps only when no flag is set
exec_jnz_no_flag(s) ==
    LET f == read_ext(s)
    IN  IF get(f.s.memory, PSW) = 0 THEN [f.s EXCEPT !.pc = f.ext] ELSE f.s

\* mutant: the test is inverted (jump if zero)
exec_jnz_inverted(s) ==
    LET f == read_ext(s)
    IN  IF get(f.s.memory, PSW) = 128 THEN [f.s EXCEPT !.pc = f.ext] ELSE f.s

exec_jnz(s) ==
    LET f == read_ext(s)
    IN  IF get(f.s.memory, PSW) # 128 THEN [f.s EXCEPT !.pc = f.ext] ELSE f.s

exec_jnn(s) ==
    LET f == read_ext(s)
    IN  IF get(f.s.memory, PSW) # 64 THEN [f.s EXCEPT !.pc = f.ext] ELSE f.s

\* mutant: the sum replaces the top cell instead of the second
exec_add_stores_top(s) ==
    LET result == wrapping_add(get(s.memory, AddrAdd(s.sp, 2)),
                               get(s.memory, AddrAdd(s.sp, 1)))
        s1 == [s EXCEPT !.memory = set(s.memory, AddrAdd(s.sp, 1), result)]
        s2 == update_psw(s1, result)
    IN  [s2 EXCEPT !.sp = AddrAdd(s2.sp, 1)]

\* mutant: the sum saturates at 255 instead of wrapping
exec_add_saturating(s) ==
    LET sum == get(s.memory, AddrAdd(s.sp, 2)) + get(s.memory, AddrAdd(s.sp, 1))
        result == IF sum > 255 THEN 255 ELSE sum
        s1 == [s EXCEPT !.memory = set(s.memory, AddrAdd(s.sp, 2), result)]
        s2 == update_psw(s1, result)
    IN  [s2 EXCEPT !.sp = AddrAdd(s2.sp, 1)]

exec_add(s) ==
    LET result == wrapping_add(get(s.memory, AddrAdd(s.sp, 2)),
                               get(s.memory, AddrAdd(s.sp, 1)))
        s1 == [s EXCEPT !.memory = set(s.memory, AddrAdd(s.sp, 2), result)]
        s2 == update_psw(s1, result)
    IN  [s2 EXCEPT !.sp = AddrAdd(s2.sp, 1)]

\* mutant: second minus top
exec_sub_swapped(s) ==
    LET result == wrapping_sub(get(s.memory, AddrAdd(s.sp, 2)),
                               get(s.memory, AddrAdd(s.sp, 1)))
        s1 == [s EXCEPT !.memory = set(s.memory, AddrAdd(s.sp, 2), result)]
        s2 == update_psw(s1, result)
    IN  [s2 EXCEPT !.sp = AddrAdd(s2.sp, 1)]

exec_sub(s) ==
    LET result == wrapping_sub(get(s.memory, AddrAdd(s.sp, 1)),
                               get(s.memory, AddrAdd(s.sp, 2)))
        s1 == [s EXCEPT !.memory = set(s.memory, AddrAdd(s.sp, 2), result)]
        s2 == update_psw(s1, result)
    IN  [s2 EXCEPT !.sp = AddrAdd(s2.sp, 1)]

\* mutant: nor updates the flags as add and sub do
exec_nor_flags(s) ==
    LET bw_or == BitOr(get(s.memory, AddrAdd(s.sp, 2)),
                       get(s.memory, AddrAdd(s.sp, 1)))
        s1 == [s EXCEPT !.memory = set(s.memory, AddrAdd(s.sp, 2), BitNot(bw_or))]
        s2 == update_psw(s1, BitNot(bw_or))
    IN  [s2 EXCEPT !.sp = AddrAdd(s2.sp, 1)]

exec_nor(s) ==
    LET bw_or == BitOr(get(s.memory, AddrAdd(s.sp, 2)),
                       get(s.memory, AddrAdd(s.sp, 1)))
        s1 == [s EXCEPT !.memory = set(s.memory, AddrAdd(s.sp, 2), BitNot(bw_or))]
    IN  [s1 EXCEPT !.sp = AddrAdd(s1.sp, 1)]

\* mutant: halt leaves the program counter on the halt instruction
exec_halt_rewinds(s) == [s EXCEPT !.halt = TRUE, !.pc = AddrSub(s.pc, 1)]

exec_halt(s) == [s EXCEPT !.halt = TRUE]

\* mutant: a fault also halts
exec_fault_halts(s) == [s EXCEPT !.fault = TRUE, !.halt = TRUE]

exec_fault(s) == [s EXCEPT !.fault = TRUE]

decode(ir, s) ==
    CASE ir = 0  -> s
      [] ir = 1  -> exec_halt(s)
      [] ir = 2  -> exec_pushimm(s)
      [] ir = 3  -> exec_pushext(s)
      [] ir = 4  -> exec_popinh(s)
      [] ir = 5  -> exec_popext(s)
      [] ir = 6  -> exec_jnz(s)
      [] ir = 7  -> exec_jnn(s)
      [] ir = 8  -> exec_add(s)
      [] ir = 9  -> exec_sub(s)
      [] ir = 10 -> exec_nor(s)
      [] OTHER   -> exec_fault(s)

\* mutant: the guard looks at the fault flag only
step_ignores_halt(s) ==
    IF s.fault
    THEN s
    ELSE LET f == read_ir(s) IN decode(f.ir, f.s)

\* mutant: the guard looks at the halt flag only
step_ignores_fault(s) ==
    IF s.halt
    THEN s
    ELSE LET f == read_ir(s) IN decode(f.ir, f.s)

step(s) ==
    IF s.fault \/ s.halt
    THEN s
    ELSE LET f == read_ir(s) IN decode(f.ir, f.s)

(* ------------------------------ console ------------------------------- *)
\* A line of the `mac` file: a byte (its first 8 characters, parsed in
\* base 2) or Short, a line of fewer than 8 characters.
Short == -1

\* pushimm a, pushimm b, op, halt
Arith(a, b, op) == <<2, a, 2, b, op, 1>>
\* pushimm a, op, halt: the second operand cell is the PSW cell
Arith1(a, op) == <<2, a, op, 1>>
\* pushimm v, popext PSW, then a jump to address 9
SetPswJump(v, j) == <<2, v, 5, 255, 251, j, 0, 9, 11, 1>>

ArithPairs == {<<5, 3>>, <<0, 0>>, <<128, 0>>, <<255, 1>>, <<1, 128>>}

MacFiles ==
    { << >>, <<1>>, <<255>>, <<Short, 1>>, <<8>>, <<9>>,
      <<4, 2, 7, 6, 0, 0>>, <<3, 0, 0, 7, 0, 2>>,
      <<6, 255, 255>>, <<4, 4, 4, 4, 4, 8>>, <<4, 4, 4, 4, 4, 4, 2, 9>>,
      <<2, 1, 2, 128, 2, 1, 8, 10, 1>>,
      <<2, 255, 2, 255, 8, 2, 7, 1>>,
      <<2, 9, 5, 255, 252, 1>>, <<2, 1, 5, 0, 6, 0>>,
      <<2, 6, 5, 255, 254, 6, 255, 254>>, <<6, 255, 253>>,
      Arith(5, 3, 10), Arith1(128, 8), Arith1(5, 9), Arith1(5, 10),
      SetPswJump(64, 7), SetPswJump(1, 7) }
    \cup { Arith(p[1], p[2], op) : p \in ArithPairs, op \in {8, 9} }
    \cup { SetPswJump(v, 6) : v \in {1, 64, 128} }

PortVals == {6}

\* entry: the machine as it was when Ssbc::run was last entered (history)
NoEntry == << >>

\* resetFrom: what the machine was when Ssbc::reset was last called (history)
VARIABLES memory, pc, sp, fault, halt, cli, mac, x, op, entry, resetFrom,
          nsteps, nloads, nwrites

machine == <<memory, pc, sp, fault, halt>>
vars == <<memory, pc, sp, fault, halt, cli, mac, x, op, entry, resetFrom,
          nsteps, nloads, nwrites>>

\* the Ssbc value held by the console
ssbc == [memory |-> memory, pc |-> pc, sp |-> sp, fault |-> fault, halt |-> halt]

Becomes(s) ==
    /\ memory' = s.memory
    /\ pc' = s.pc
    /\ sp' = s.sp
    /\ fault' = s.fault
    /\ halt' = s.halt

Init ==
    /\ memory = Ssbc_default.memory
    /\ pc = Ssbc_default.pc
    /\ sp = Ssbc_default.sp
    /\ fault = Ssbc_default.fault
    /\ halt = Ssbc_default.halt
    /\ cli = "prompt" /\ mac = << >> /\ x = 0 /\ op = "new" /\ entry = NoEntry
    /\ resetFrom = "none"
    /\ nsteps = 0 /\ nloads = 0 /\ nwrites = 0

\* 'R', first half: SsbcCli::reset calls Ssbc::reset and opens `mac`
CmdReset ==
    /\ cli = "prompt"
    /\ nloads < MaxLoads
    /\ \E f \in MacFiles : mac' = f
    /\ Becomes(reset(ssbc))
    /\ cli' = "load" /\ x' = 0 /\ op' = "reset" /\ entry' = NoEntry
    /\ resetFrom' = (IF fault \/ halt THEN "stopped" ELSE "running")
    /\ nsteps' = 0 /\ nloads' = nloads + 1
    /\ UNCHANGED nwrites

\* 'R', the loop over the lines of `mac`: line x goes to address x
LoadLine ==
    /\ cli = "load"
    /\ x < Len(mac)
    /\ memory' = IF mac[x + 1] # Short THEN set(memory, x, mac[x + 1]) ELSE memory
    /\ x' = x + 1 /\ op' = "load"
    /\ UNCHANGED <<pc, sp, fault, halt, cli, mac, entry, resetFrom, nsteps, nloads, nwrites>>

\* 'R', end of the file: back to the prompt
LoadDone ==
    /\ cli = "load"
    /\ x = Len(mac)
    /\ cli' = "prompt" /\ mac' = << >> /\ x' = 0 /\ op' = "loaded"
    /\ UNCHANGED <<machine, entry, resetFrom, nsteps, nloads, nwrites>>

\* 'b': one call of Ssbc::step
CmdStep ==
    /\ cli = "prompt"
    /\ (~fault /\ ~halt) => nsteps < MaxSteps
    /\ Becomes(step(ssbc))
    /\ nsteps' = IF fault \/ halt THEN nsteps ELSE nsteps + 1
    /\ op' = (IF fault \/ halt THEN "step_nop" ELSE "step") /\ entry' = NoEntry
    /\ UNCHANGED <<cli, mac, x, resetFrom, nloads, nwrites>>

\* 'r': Ssbc::run is entered
CmdRun ==
    /\ cli = "prompt"
    /\ cli' = "run" /\ op' = "run" /\ entry' = <<ssbc>>
    /\ UNCHANGED <<machine, mac, x, resetFrom, nsteps, nloads, nwrites>>

\* one iteration of the while loop of Ssbc::run
RunStep ==
    /\ cli = "run"
    /\ ~fault /\ ~halt
    /\ nsteps < MaxSteps
    /\ Becomes(step(ssbc))
    /\ nsteps' = nsteps + 1 /\ op' = "run_step"
    /\ UNCHANGED <<cli, mac, x, entry, resetFrom, nloads, nwrites>>

\* mutant: `if` for `while`, run returns after one iteration
RunReturn_after_one ==
    /\ cli = "run"
    /\ fault \/ halt \/ op = "run_step"
    /\ cli' = "prompt" /\ op' = "run_return"
    /\ UNCHANGED <<machine, mac, x, entry, resetFrom, nsteps, nloads, nwrites>>

\* the loop condition of Ssbc::run fails: run returns to the prompt
RunReturn ==
    /\ cli = "run"
    /\ fault \/ halt
    /\ cli' = "prompt" /\ op' = "run_return"
    /\ UNCHANGED <<machine, mac, x, entry, resetFrom, nsteps, nloads, nwrites>>

\* 'B' and 'D': the operator's byte is stored in the port's cell
CmdWritePort ==
    /\ cli = "prompt"
    /\ nwrites < MaxWrites
    /\ \E port \in {"B", "D"}, value \in PortVals :
           memory' = set(memory, to_addr(port), value)
    /\ op' = "write" /\ entry' = NoEntry /\ nwrites' = nwrites + 1
    /\ UNCHANGED <<pc, sp, fault, halt, cli, mac, x, resetFrom, nsteps, nloads>>

Next ==
    \/ CmdReset
    \/ LoadLine
    \/ LoadDone
    \/ CmdStep
    \/ CmdRun
    \/ RunStep
    \/ RunReturn
    \/ CmdWritePort

Spec == Init /\ [][Next]_vars

(* ----------------- run() without a bound on its iterations ------------ *)
\* `mac` files for sessions in which run() is left to loop: the empty file
\* (all memory zero), jnz 0x0000, halt, and nop nop fault
LoopFiles == { << >>, <<6, 0, 0>>, <<1>>, <<0, 0, 11>> }

\* 'R' with one of the LoopFiles
CmdResetLoop ==
    /\ cli = "prompt"
    /\ nloads < MaxLoads
    /\ \E f \in LoopFiles : mac' = f
    /\ Becomes(reset(ssbc))
    /\ cli' = "load" /\ x' = 0 /\ op' = "reset" /\ entry' = NoEntry
    /\ resetFrom' = (IF fault \/ halt THEN "stopped" ELSE "running")
    /\ nsteps' = 0 /\ nloads' = nloads + 1
    /\ UNCHANGED nwrites

\* one iteration of the while loop of Ssbc::run, however many came before
RunLoop ==
    /\ cli = "run"
    /\ ~fault /\ ~halt
    /\ Becomes(step(ssbc))
    /\ op' = "run_step"
    /\ UNCHANGED <<cli, mac, x, entry, resetFrom, nsteps, nloads, nwrites>>

NextLoop ==
    \/ CmdResetLoop
    \/ LoadLine
    \/ LoadDone
    \/ CmdRun
    \/ RunLoop
    \/ RunReturn

SpecLoop == Init /\ [][NextLoop]_vars

TypeOK ==
    /\ pc \in Addr /\ sp \in Addr
    /\ fault \in BOOLEAN /\ halt \in BOOLEAN
    /\ DOMAIN memory \subseteq Addr
    /\ \A a \in DOMAIN memory : memory[a] \in 1 .. 255

(* ------------------------- vocabulary of the claims ------------------- *)
Running == ~fault /\ ~halt

\* the transition is a call of Ssbc::step (from 'b' or from the loop of run)
IsStep == op' \in {"step", "step_nop", "run_step"}

\* the transition is a call of step that fetches opcode k in a running state
Executes(k) == IsStep /\ Running /\ get(memory, pc) = k

\* the last transition was a call of step that executed an instruction
Stepped == op \in {"step", "run_step"}

\* memory after `file` was loaded into zeroed memory
ImageOf(file) ==
    [a \in {i - 1 : i \in {j \in DOMAIN file : file[j] # Short /\ file[j] # 0}}
        |-> file[a + 1]]

\* the machine right after reset() with `file` as the only memory content
Fresh(file) ==
    [memory |-> ImageOf(file), pc |-> 0, sp |-> 65530, fault |-> FALSE, halt |-> FALSE]

\* run() was entered in state e and has returned
RanFrom(e) == op = "run_return" /\ entry = <<e>>

\* the flag byte of an 8-bit result, as the specification words it
FlagOf(r) == IF r = 0 THEN 128 ELSE IF r > 128 THEN 64 ELSE 0

(* ------------------------------- C1 ----------------------------------- *)
\* C1: while fault or halt is true, every call of step() and every call of
\* run() (entry and return) leaves PC, SP, memory, fault and halt unchanged.
C1_StickyFlags ==
    [][ (fault \/ halt) /\ op' \in {"step", "step_nop", "run", "run_step", "run_return"}
          => UNCHANGED machine ]_vars

\* step() was called on a halted machine that holds a program and a stack
C1_Witness == op = "step_nop" /\ halt /\ sp # 65530 /\ memory # Memory_new

(* ------------------------------- C2 ----------------------------------- *)
\* C2: reset() yields PC = 0x0000, SP = 0xFFFA, fault = halt = false and
\* leaves every memory cell unchanged, whatever the state it is called in.
C2_ResetPost ==
    [][ op' = "reset"
          => /\ pc' = 0 /\ sp' = 65530 /\ ~fault' /\ ~halt'
             /\ memory' = memory ]_vars

\* reset() has acted on a machine whose PSW and port D cells are non-zero
\* (a second R command, after a program ran and the operator wrote port D)
C2_Witness ==
    /\ op = "reset" /\ nloads = 2
    /\ get(memory, PSW) # 0 /\ get(memory, to_addr("D")) # 0

(* ------------------------------- C3 ----------------------------------- *)
\* C3: right after a step that executes add or sub, the PSW cell is 0x80 iff
\* the wrapped result is 0, 0x40 iff it is > 128, and 0x00 otherwise, also
\* when SP+1 or SP+2 is the PSW address.
C3_FlagComputation ==
    [][ (Executes(8) \/ Executes(9))
          => LET a == get(memory, AddrAdd(sp, 1))
                 b == get(memory, AddrAdd(sp, 2))
                 r == IF get(memory, pc) = 8 THEN (b + a) % 256 ELSE (a - b) % 256
             IN  /\ (get(memory', PSW) = 128) <=> (r = 0)
                 /\ (get(memory', PSW) = 64) <=> (r > 128)
                 /\ (r # 0 /\ r <= 128) => get(memory', PSW) = 0 ]_vars

\* pushimm 128, add has run: the add found the PSW cell at SP+2 and its
\* result was exactly 128
C3_Witness ==
    /\ Stepped /\ nsteps = 2 /\ pc = 3 /\ sp = 65530
    /\ get(memory, 0) = 2 /\ get(memory, 1) = 128 /\ get(memory, 2) = 8
    /\ get(memory, PSW) = 0

(* ------------------------------- C4 ----------------------------------- *)
\* the two-byte operand of the instruction at PC
Operand == get(memory, AddrAdd(pc, 1)) * 256 + get(memory, AddrAdd(pc, 2))

C6_InvalidOpcode ==
    [][ (IsStep /\ Running /\ get(memory, pc) >= 11)
          => /\ fault' /\ halt' = halt
             /\ pc' = AddrAdd(pc, 1) /\ sp' = sp
             /\ memory' = memory ]_vars

\* opcode 255 at address 0 has been stepped over
C6_Witness ==
    /\ Stepped /\ fault /\ ~halt /\ pc = 1 /\ nsteps = 1 /\ get(memory, 0) = 255

(* ------------------------------- C7 ----------------------------------- *)
\* C7: a step that fetches opcode 1 sets halt, advances PC by one and leaves
\* SP, fault and memory unchanged.
C7_Halt ==
    [][ Executes(1)
          => /\ halt' /\ fault' = fault
             /\ pc' = AddrAdd(pc, 1) /\ sp' = sp
             /\ memory' = memory ]_vars

\* opcode 1 at address 0 has been executed from PC = 0
C7_Witness ==
    /\ Stepped /\ halt /\ ~fault /\ pc = 1 /\ nsteps = 1 /\ get(memory, 0) = 1

(* ------------------------------- C8 ----------------------------------- *)
AddProgram == <<2, 5, 2, 3, 8, 1>>

\* C8 as stated: after reset and run of pushimm 5, pushimm 3, add, halt the
\* cell at 0xFFF9 holds 8.
C8_AddEndToEndOrig ==
    RanFrom(Fresh(AddProgram))
      => /\ halt /\ ~fault /\ sp = 65529
         /\ get(memory, 65529) = 8
         /\ get(memory, PSW) = 0

\* C8 (amended): after reset and run of that program halt is true, fault is
\* false, SP is 0xFFF9, the cell at 0xFFFA (SP+1, the top of the stack) holds
\* 8, the cell at 0xFFF9 still holds the second operand 3, and PSW is 0x00.
C8_AddEndToEnd ==
    RanFrom(Fresh(AddProgram))
      => /\ halt /\ ~fault /\ sp = 65529
         /\ get(memory, AddrAdd(sp, 1)) = 8
         /\ get(memory, 65529) = 3
         /\ get(memory, PSW) = 0

\* run() has returned from the add program
C8_Witness == RanFrom(Fresh(AddProgram)) /\ pc = 6

(* ------------------------------- C9 ----------------------------------- *)
SubProgram == <<2, 0, 2, 0, 9, 1>>

\* C9 as stated: sub leaves top minus second in the cell at old SP+2, pops
\* one cell and advances PC by one.
C9_SubOrig ==
    [][ Executes(9)
          => LET r == (get(memory, AddrAdd(sp, 1)) - get(memory, AddrAdd(sp, 2))) % 256
             IN  /\ get(memory', AddrAdd(sp, 2)) = r
                 /\ sp' = AddrAdd(sp, 1)
                 /\ pc' = AddrAdd(pc, 1) ]_vars

\* C9 (amended): sub computes top minus second, pops one cell and advances PC
\* by one; the result is left in the cell at old SP+2 unless that cell is the
\* PSW cell (SP = 0xFFF9), which then holds the flag byte of the result; and
\* pushimm 0, pushimm 0, sub, halt run from reset ends halted with 0 on top
\* of the stack and PSW = 0x80.
C9_Sub ==
    [][ /\ Executes(9)
          => LET r == (get(memory, AddrAdd(sp, 1)) - get(memory, AddrAdd(sp, 2))) % 256
             IN  /\ get(memory', AddrAdd(sp, 2)) =
                        (IF AddrAdd(sp, 2) = PSW THEN FlagOf(r) ELSE r)
                 /\ sp' = AddrAdd(sp, 1)
                 /\ pc' = AddrAdd(pc, 1)
        /\ RanFrom(Fresh(SubProgram))'
          => /\ halt' /\ ~fault'
             /\ get(memory', AddrAdd(sp', 1)) = 0
             /\ get(memory', PSW) = 128 ]_vars

\* pushimm 5, pushimm 3, sub has run: 3 - 5 wrapped to 254 in the cell at
\* 0xFFFA
C9_Witness ==
    /\ Stepped /\ nsteps = 3 /\ pc = 5 /\ sp = 65529
    /\ get(memory, 1) = 5 /\ get(memory, 3) = 3 /\ get(memory, 4) = 9
    /\ get(memory, 65530) = 254 /\ get(memory, PSW) = 64

(* ------------------------------- C10 ---------------------------------- *)
\* C10: a step executing jnz sets PC to its operand when the PSW cell is not
\* 0x80, whatever other byte it holds, and to old PC + 3 when it is 0x80; SP,
\* the flags and memory are unchanged.
C10_Jnz ==
    [][ Executes(6)
          => /\ pc' = (IF get(memory, PSW) # 128 THEN Operand ELSE AddrAdd(pc, 3))
             /\ sp' = sp /\ fault' = fault /\ halt' = halt
             /\ memory' = memory ]_vars

\* pushimm 1, popext PSW, jnz 9 has run: the PSW byte is 1, neither 0x00 nor
\* 0x40, and the branch was taken
C10_Witness ==
    /\ Stepped /\ nsteps = 3 /\ pc = 9 /\ sp = 65530
    /\ get(memory, 5) = 6 /\ get(memory, 7) = 9
    /\ get(memory, PSW) = 1

(* ------------------------------- C11 ---------------------------------- *)
\* step() applied from s until fault or halt holds, n times at most
RECURSIVE StepsUntilStop(_, _)
StepsUntilStop(s, n) ==
    IF s.fault \/ s.halt \/ n = 0 THEN s ELSE StepsUntilStop(step(s), n - 1)

\* C11: when run() returns, fault or halt is true and the machine is the
\* entry state stepped until the first state with fault or halt (the entry
\* state itself if it was halted or faulted).
C11_RunPost ==
    op = "run_return"
      => /\ fault \/ halt
         /\ entry # NoEntry
         /\ ssbc = StepsUntilStop(entry[1], MaxSteps)

\* run() was entered in mid-program on a running machine and has returned
\* with a fault after at least two iterations
C11_Witness ==
    /\ op = "run_return" /\ entry # NoEntry
    /\ ~entry[1].fault /\ ~entry[1].halt /\ entry[1].pc = 2
    /\ fault /\ pc = 9 /\ nsteps = 4

(* ------------------------------- C12 ---------------------------------- *)
\* C12: run() need not terminate: entered after reset on all-zero memory, or
\* on jnz 0x0000 at address 0 with PSW = 0, it never returns: fault and halt
\* stay false through every iteration (with jnz, PC stays at 0), so
\* 'eventually fault or halt' fails.
C12_RunNeverReturns ==
    (entry # NoEntry /\ entry[1] \in {Fresh(<< >>), Fresh(<<6, 0, 0>>)})
      => /\ cli = "run" /\ ~fault /\ ~halt
         /\ memory = entry[1].memory
         /\ entry[1] = Fresh(<<6, 0, 0>>) => pc = 0

\* run() on all-zero memory has fetched a nop at each of the 65536 addresses
\* and PC is back at 0
C12_Witness ==
    /\ entry = <<Fresh(<< >>)>> /\ cli = "run" /\ op = "run_step" /\ pc = 0

(* ------------------------------- C13 ---------------------------------- *)
\* C13: halt rises only in a step that fetches opcode 1, fault rises only in
\* a step that fetches an opcode >= 11, a flag falls only in reset(), which
\* leaves both false; and a step on the running machine (as it is after a
\* reset from Halted or Faulted) executes an instruction: it changes the
\* machine, unless it is a jump to its own address.
C13_FlagTransitions ==
    [][ /\ (~halt /\ halt') => Executes(1)
        /\ (~fault /\ fault') => (IsStep /\ Running /\ get(memory, pc) >= 11)
        /\ ((halt /\ ~halt') \/ (fault /\ ~fault')) => op' = "reset"
        /\ op' = "reset" => (~fault' /\ ~halt')
        /\ (IsStep /\ Running)
             => (ssbc' # ssbc \/ get(memory, pc) \in {6, 7}) ]_vars

\* after a reset of a halted or faulted machine, the first step has executed
\* a halt instruction
C13_Witness ==
    /\ resetFrom = "stopped" /\ nloads = 2
    /\ Stepped /\ nsteps = 1 /\ halt /\ pc = 1

(* ------------------------------- C14 ---------------------------------- *)
\* C14 as stated: for any SP, add leaves second plus top, wrapped, in the cell
\* at old SP+2, pops one cell and advances PC by one.
C14_AddOrig ==
    [][ Executes(8)
          => LET r == (get(memory, AddrAdd(sp, 2)) + get(memory, AddrAdd(sp, 1))) % 256
             IN  /\ get(memory', AddrAdd(sp, 2)) = r
                 /\ sp' = AddrAdd(sp, 1)
                 /\ pc' = AddrAdd(pc, 1) ]_vars

\* C14 (amended): add pops one cell, advances PC by one and leaves second
\* plus top, wrapped, in the cell at old SP+2, unless that cell is the PSW
\* cell (SP = 0xFFF9), which then holds the flag byte of the sum.
C14_Add ==
    [][ Executes(8)
          => LET r == (get(memory, AddrAdd(sp, 2)) + get(memory, AddrAdd(sp, 1))) % 256
             IN  /\ get(memory', AddrAdd(sp, 2)) =
                        (IF sp = 65529 THEN FlagOf(r) ELSE r)
                 /\ sp' = AddrAdd(sp, 1)
                 /\ pc' = AddrAdd(pc, 1) ]_vars

\* pushimm 255, pushimm 1, add has run: the sum wrapped to 0 in the cell at
\* 0xFFFA
C14_Witness ==
    /\ Stepped /\ nsteps = 3 /\ pc = 5 /\ sp = 65529
    /\ get(memory, 1) = 255 /\ get(memory, 3) = 1 /\ get(memory, 4) = 8
    /\ get(memory, 65530) = 0 /\ get(memory, PSW) = 128

C16_Pushimm ==
    [][ Executes(2)
          => LET imm == get(memory, AddrAdd(pc, 1))
             IN  /\ memory' = set(memory, sp, imm)
                 /\ sp' = AddrSub(sp, 1)
                 /\ pc' = AddrAdd(pc, 2)
                 /\ get(memory', AddrAdd(sp', 1)) = imm
                 /\ fault' = fault /\ halt' = halt ]_vars

\* popinh, pushimm 7 has run: the push found SP at the PSW address and left 7
\* there
C16_Witness ==
    /\ Stepped /\ nsteps = 2 /\ pc = 3 /\ sp = 65530
    /\ get(memory, 0) = 4 /\ get(memory, 1) = 2 /\ get(memory, PSW) = 7

(* ------------------------------- C17 ---------------------------------- *)
\* C17: the operand of pushext, popext, jnz and jnn is the byte at the PC
\* after the opcode fetch times 256 plus the byte at the next address modulo
\* 65536; it lies in 0..65535, it is the address the instruction uses, and
\* PC ends two past the opcode fetch (three past the opcode, modulo 65536)
\* unless the jump is taken.
C17_ExtOperand ==
    [][ (IsStep /\ Running /\ get(memory, pc) \in {3, 5, 6, 7})
          => LET ir == get(memory, pc)
             IN  /\ Operand \in Addr
                 /\ ir = 3 => /\ pc' = AddrAdd(pc, 3)
                              /\ get(memory', sp) = get(memory, Operand)
                 /\ ir = 5 => /\ pc' = AddrAdd(pc, 3)
                              /\ get(memory', Operand) = get(memory, AddrAdd(sp, 1))
                 /\ ir = 6 => pc' = (IF get(memory, PSW) # 128 THEN Operand
                                     ELSE AddrAdd(pc, 3))
                 /\ ir = 7 => pc' = (IF get(memory, PSW) # 64 THEN Operand
                                     ELSE AddrAdd(pc, 3)) ]_vars

\* a jnz fetched at 0xFFFE has taken its operand from 0xFFFF (port D, 6) and
\* 0x0000 (2) and jumped to 0x0602
C17_Witness ==
    /\ Stepped /\ nsteps = 4 /\ pc = 1538
    /\ get(memory, 65534) = 6 /\ get(memory, 65535) = 6 /\ get(memory, 0) = 2

(* ------------------------------- C18 ---------------------------------- *)
\* C18: every step of a running machine leaves PC and SP in 0..65535 and
\* memory within its 65536 cells; an instruction without operand fetched at
\* 0xFFFF leaves PC = 0, popinh at SP = 0xFFFF gives SP = 0, pushimm at
\* SP = 0 gives SP = 0xFFFF, and add at SP = 0xFFFF adds cell 0 to cell 1.
C18_AddressWrap ==
    [][ (IsStep /\ Running)
          => LET ir == get(memory, pc)
             IN  /\ pc' \in Addr /\ sp' \in Addr
                 /\ DOMAIN memory' \subseteq Addr
                 /\ (pc = 65535 /\ ir \notin {2, 3, 5, 6, 7}) => pc' = 0
                 /\ (sp = 65535 /\ ir = 4) => sp' = 0
                 /\ (sp = 0 /\ ir = 2) => sp' = 65535
                 /\ (sp = 65535 /\ ir = 8)
                      => /\ sp' = 0
                         /\ get(memory', 1) = (get(memory, 1) + get(memory, 0)) % 256 ]_vars

\* six popinh took SP from 0xFFFA through 0xFFFF to 0, and pushimm 9 then
\* wrote cell 0 and left SP = 0xFFFF
C18_Witness ==
    /\ Stepped /\ nsteps = 7 /\ pc = 8 /\ sp = 65535
    /\ get(memory, 0) = 9 /\ get(memory, 6) = 2

(* ------------------------------- C19 ---------------------------------- *)
\* C19: fault and halt are never both true.
C19_NotBoth == ~(fault /\ halt)

\* a machine that was reset when halted or faulted has run into a fault, and
\* run() has returned
C19_Witness ==
    /\ resetFrom = "stopped" /\ op = "run_return" /\ fault /\ ~halt

(* ------------------------------- C20 ---------------------------------- *)
\* the cells whose content the transition changes
Changed ==
    {a \in (DOMAIN memory) \cup (DOMAIN memory') : get(memory, a) # get(memory', a)}

SpDelta(ir) ==
    CASE ir \in {2, 3} -> -1
      [] ir \in {4, 5, 8, 9, 10} -> 1
      [] OTHER -> 0

\* C20: a step of a running machine changes SP by -1 for pushimm and pushext,
\* +1 for popinh, popext, add, sub and nor, and 0 otherwise (modulo 65536); it
\* changes at most one cell besides the PSW cell of add and sub, and no cell
\* for nop, halt, popinh, jnz, jnn and invalid opcodes.
C20_StackEffect ==
    [][ (IsStep /\ Running)
          => LET ir == get(memory, pc)
             IN  /\ sp' = (sp + SpDelta(ir)) % MEMORY_LENGTH
                 /\ Cardinality(Changed \ (IF ir \in {8, 9} THEN {PSW} ELSE {})) <= 1
                 /\ (ir \in {0, 1, 4, 6, 7} \/ ir >= 11) => Changed = {} ]_vars

\* pushext 0x0000 has run: the opcode byte 3 was copied to the cell at 0xFFFA
C20_Witness ==
    /\ Stepped /\ nsteps = 1 /\ pc = 3 /\ sp = 65529
    /\ get(memory, 0) = 3 /\ get(memory, 65530) = 3

====
